---- MODULE Spec2Model ----
(***************************************************************************)
(* A model of the loan-default preprocessing script: src/src/preprocess.py *)
(* and the loader src/src/data_loader.py.                                  *)
(*                                                                         *)
(* Text is a sequence of one-character strings.  A number is an integer    *)
(* count of hundredths (1200.50 is 120050), so that integer casts and      *)
(* decimal parsing are computed and not assumed.  A cell is a record       *)
(* [k, s, n]: k is "str" (text s), "num" (n hundredths), "bool" (n is 1    *)
(* for True, 0 for False) or "nan" (a missing value).  A column is         *)
(* [name, dtype, vals]; a frame is [index, cols], index being the pandas   *)
(* row labels, which survive dropna.                                       *)
(***************************************************************************)
EXTENDS Integers, Sequences, FiniteSets, TLC

VARIABLES
    pc,        \* where the run stands: "start", a step of preprocess(), "returned", "done", "aborted"
    op,        \* the function called from the start state
    cfg,       \* the configuration (the list arguments of a direct call)
    raw,       \* the frame load_raw_dataframe returned
    arg,       \* the frame passed to the operation that ran last
    df,        \* the working frame (the frame a direct call returned)
    err,       \* the exception raised, "" when none
    name_arg,  \* the argument of a call of _to_snake
    name_ret,  \* its result
    steps,     \* the steps of preprocess() completed so far, in order
    out_file,  \* the processed CSV file on disk
    old_file   \* the processed CSV file as it was before the run

vars == <<pc, op, cfg, raw, arg, df, err, name_arg, name_ret, steps,
          out_file, old_file>>

\* ------------------------------------------------------------------ bounds

\* Longest column name enumerated for _to_snake.
MaxLen == 4
\* Most rows of an enumerated target or currency column.
MaxRows == 2
\* Most columns of an enumerated column layout.
MaxCols == 3

\* ------------------------------------------------------------- characters

UpperChars == <<"A","B","C","D","E","F","G","H","I","J","K","L","M",
                "N","O","P","Q","R","S","T","U","V","W","X","Y","Z">>
LowerChars == <<"a","b","c","d","e","f","g","h","i","j","k","l","m",
                "n","o","p","q","r","s","t","u","v","w","x","y","z">>
DigitChars == <<"0","1","2","3","4","5","6","7","8","9">>

Range(f) == {f[i] : i \in DOMAIN f}

IsUpper(c) == c \in Range(UpperChars)
IsDigit(c) == c \in Range(DigitChars)
IsAlnum(c) == IsDigit(c) \/ c \in Range(LowerChars) \/ IsUpper(c)
\* The whitespace str.strip() removes.
Whitespace == {" ", "\t", "\n"}

\* str.lower() on one character.
LowerChar(c) ==
    IF IsUpper(c)
    THEN LowerChars[CHOOSE i \in DOMAIN UpperChars : UpperChars[i] = c]
    ELSE c

Lower(s) == [i \in DOMAIN s |-> LowerChar(s[i])]

RECURSIVE LStrip(_, _)
LStrip(s, chars) ==
    IF s # <<>> /\ Head(s) \in chars THEN LStrip(Tail(s), chars) ELSE s

RECURSIVE RStrip(_, _)
RStrip(s, chars) ==
    IF s # <<>> /\ s[Len(s)] \in chars
    THEN RStrip(SubSeq(s, 1, Len(s) - 1), chars)
    ELSE s

\* str.strip(): leading and trailing whitespace removed.
Strip(s) == RStrip(LStrip(s, Whitespace), Whitespace)

\* re.sub(r"[^0-9a-zA-Z]+", "_", s): every maximal run of characters that
\* are not ASCII letters or digits becomes one underscore.
RECURSIVE SkipNonAlnum(_)
SkipNonAlnum(s) ==
    IF s # <<>> /\ ~IsAlnum(Head(s)) THEN SkipNonAlnum(Tail(s)) ELSE s

RECURSIVE SubNonAlnum(_)
SubNonAlnum(s) ==
    IF s = <<>> THEN <<>>
    ELSE IF IsAlnum(Head(s)) THEN <<Head(s)>> \o SubNonAlnum(Tail(s))
    ELSE <<"_">> \o SubNonAlnum(SkipNonAlnum(s))

\* re.sub(r"_+", "_", s)
RECURSIVE SubUnderscores(_)
SubUnderscores(s) ==
    IF s = <<>> THEN <<>>
    ELSE IF Head(s) # "_" THEN <<Head(s)>> \o SubUnderscores(Tail(s))
    ELSE <<"_">> \o SubUnderscores(LStrip(s, {"_"}))

\* The variant of _to_snake without the final strip("_").
ToSnakeNoStrip(name) == SubUnderscores(SubNonAlnum(Lower(Strip(name))))

_to_snake(name) ==
    LET s == SubNonAlnum(Lower(Strip(name)))
    IN  RStrip(LStrip(SubUnderscores(s), {"_"}), {"_"})

\* ------------------------------------------------------------------ cells

Str(s) == [k |-> "str", s |-> s, n |-> 0]
Num(n) == [k |-> "num", s |-> <<>>, n |-> n]
Bool(b) == [k |-> "bool", s |-> <<>>, n |-> IF b THEN 1 ELSE 0]
NaN == [k |-> "nan", s |-> <<>>, n |-> 0]

IsNa(c) == c.k = "nan"

\* ----------------------------------------------------- numbers and text

Abs(n) == IF n < 0 THEN -n ELSE n

\* Truncation toward zero of n hundredths to a whole number (astype(int)).
Trunc(n) == IF n < 0 THEN -((-n \div 100) * 100) ELSE (n \div 100) * 100

RECURSIVE DigitsOf(_)
DigitsOf(n) ==
    IF n < 10 THEN <<DigitChars[n + 1]>>
    ELSE DigitsOf(n \div 10) \o <<DigitChars[(n % 10) + 1]>>

RECURSIVE DigitsValue(_)
DigitsValue(ds) ==
    IF ds = <<>> THEN 0
    ELSE 10 * DigitsValue(SubSeq(ds, 1, Len(ds) - 1))
         + ((CHOOSE i \in DOMAIN DigitChars : DigitChars[i] = ds[Len(ds)]) - 1)

AllDigits(s) == \A i \in DOMAIN s : IsDigit(s[i])

Sign(n) == IF n < 0 THEN <<"-">> ELSE <<>>

\* str(int): a whole number of hundredths as decimal digits.
FormatInt(n) == Sign(n) \o DigitsOf(Abs(n) \div 100)

\* repr(float) for a value with at most two decimals: 1200.5, 950.0, 0.05.
FormatFloat(n) ==
    LET f == Abs(n) % 100
    IN  Sign(n) \o DigitsOf(Abs(n) \div 100) \o <<".">>
        \o (IF f % 10 = 0 THEN DigitsOf(f \div 10)
            ELSE DigitsOf(f \div 10) \o DigitsOf(f % 10))

\* Series.astype(str) on one cell of an object column.
AsTypeStr(c) ==
    CASE c.k = "str" -> c.s
      [] c.k = "nan" -> <<"n","a","n">>
      [] c.k = "bool" -> IF c.n = 1 THEN <<"T","r","u","e">>
                         ELSE <<"F","a","l","s","e">>
      [] OTHER -> FormatFloat(c.n)

\* str.replace(old, "", regex=False) for a one-character old.
Remove(s, ch) == SelectSeq(s, LAMBDA c : c # ch)

Fail == [k |-> "fail", s |-> <<>>, n |-> 0]

\* Position of the first "." of s, or 0.
DotAt(s) ==
    IF \E i \in DOMAIN s : s[i] = "."
    THEN CHOOSE i \in DOMAIN s : s[i] = "." /\ \A j \in 1..(i - 1) : s[j] # "."
    ELSE 0

\* The numeral with integer digits ip and decimal digits fp as hundredths,
\* or Fail.  Decimals beyond the second are cut: the enumerated texts have
\* at most two.
ParseParts(ip, fp) ==
    IF AllDigits(ip) /\ AllDigits(fp) /\ Len(ip) + Len(fp) > 0
    THEN Num(100 * DigitsValue(ip)
             + DigitsValue(SubSeq(fp \o <<"0","0">>, 1, 2)))
    ELSE Fail

SplitAt(s, d) ==
    IF d = 0 THEN ParseParts(s, <<>>)
    ELSE ParseParts(SubSeq(s, 1, d - 1), SubSeq(s, d + 1, Len(s)))

\* The unsigned decimal numeral s as hundredths, or Fail.
ParseUnsigned(s) == SplitAt(s, DotAt(s))

Negate(r) == IF r = Fail THEN Fail ELSE Num(-r.n)

\* pandas' numeric parse of one text (lib.maybe_convert_numeric): the empty
\* text and "nan" are missing values, a signed decimal numeral is its value,
\* anything else does not parse.
ParseNumber(s) ==
    IF s = <<>> \/ Lower(s) = <<"n","a","n">> THEN NaN
    ELSE IF Head(s) \in {"-", "+"}
    THEN (IF Head(s) = "-" THEN Negate(ParseUnsigned(Tail(s)))
          ELSE ParseUnsigned(Tail(s)))
    ELSE ParseUnsigned(s)

\* pd.to_numeric on one cell of an object column.
CellToNumeric(c) ==
    CASE c.k = "str" -> ParseNumber(c.s)
      [] c.k = "bool" -> Num(100 * c.n)
      [] OTHER -> c

HasPoint(c) == c.k = "str" /\ \E i \in DOMAIN c.s : c.s[i] = "."

\* The column of the parsed cells: float64 when a missing value or a decimal
\* point occurs, int64 otherwise; the cells that did not parse are missing.
NumericColumn(col, parsed) ==
    [col EXCEPT
       !.dtype = IF \E i \in DOMAIN parsed :
                      parsed[i].k \in {"nan", "fail"} \/ HasPoint(col.vals[i])
                 THEN "float64" ELSE "int64",
       !.vals = [i \in DOMAIN parsed |->
                   IF parsed[i] = Fail THEN NaN ELSE parsed[i]]]

ParsedOrInput(col, parsed, errors) ==
    IF errors = "ignore" /\ \E i \in DOMAIN parsed : parsed[i] = Fail
    THEN col
    ELSE NumericColumn(col, parsed)

\* pd.to_numeric(column, errors=...): a numeric column comes back as it
\* is; an object column is parsed as a whole.  With errors="coerce" the
\* cells that do not parse become missing; with errors="ignore" one cell
\* that does not parse makes the call return its input unchanged.
to_numeric(col, errors) ==
    IF col.dtype # "object" THEN col
    ELSE ParsedOrInput(col,
                       [i \in DOMAIN col.vals |-> CellToNumeric(col.vals[i])],
                       errors)

\* ----------------------------------------------------------------- frames

NoFrame == [index |-> <<>>, cols |-> <<>>]

Ok(d) == [err |-> "", df |-> d]
Raise(e) == [err |-> e, df |-> NoFrame]

ColNames(d) == [i \in DOMAIN d.cols |-> d.cols[i].name]

\* df[label] for one label: the columns carrying it (a Series when there is
\* one, a DataFrame when the label is duplicated).
ColumnsNamed(d, label) == SelectSeq(d.cols, LAMBDA c : c.name = label)

PositionsOf(d, label) == {i \in DOMAIN d.cols : d.cols[i].name = label}

Distinct(s) == \A i, j \in DOMAIN s : s[i] = s[j] => i = j

\* The subsequence of s at the positions satisfying Keep.
RECURSIVE Pick(_, _, _)
Pick(s, keepAt, i) ==
    IF i > Len(s) THEN <<>>
    ELSE (IF i \in keepAt THEN <<s[i]>> ELSE <<>>) \o Pick(s, keepAt, i + 1)

\* df.dropna(subset=[label]) for a label carried by column j.
dropna(d, j) ==
    LET keepAt == {i \in DOMAIN d.index : ~IsNa(d.cols[j].vals[i])}
    IN  [index |-> Pick(d.index, keepAt, 1),
         cols |-> [c \in DOMAIN d.cols |->
                     [d.cols[c] EXCEPT !.vals = Pick(d.cols[c].vals, keepAt, 1)]]]

\* df[keys] for a list of labels: for each key in turn, every column that
\* carries it.
RECURSIVE GetItemList(_, _)
GetItemList(d, keys) ==
    IF keys = <<>> THEN <<>>
    ELSE ColumnsNamed(d, Head(keys)) \o GetItemList(d, Tail(keys))

\* df[label] = col for the label of column j.
SetCol(d, j, col) ==
    [d EXCEPT !.cols = [i \in DOMAIN d.cols |-> IF i = j THEN col ELSE d.cols[i]]]

AnyNa(col) == \E i \in DOMAIN col.vals : IsNa(col.vals[i])

\* pd.api.types.is_integer_dtype
is_integer_dtype(dtype) == dtype \in {"int64", "Int64"}

\* A cast that rounds to the nearest whole number instead of cutting.
astype_int_round(col) ==
    [col EXCEPT !.dtype = "int64",
                !.vals = [i \in DOMAIN col.vals |->
                            IF col.vals[i].k = "bool"
                            THEN Num(100 * col.vals[i].n)
                            ELSE Num(Trunc(col.vals[i].n + 50))]]

\* Series.astype(int): booleans to 0/1, numbers cut toward zero.
astype_int(col) ==
    [col EXCEPT !.dtype = "int64",
                !.vals = [i \in DOMAIN col.vals |->
                            IF col.vals[i].k = "bool"
                            THEN Num(100 * col.vals[i].n)
                            ELSE Num(Trunc(col.vals[i].n))]]

\* ------------------------------------------------------------ preprocess.py

normalize_columns(d) ==
    [d EXCEPT !.cols = [i \in DOMAIN d.cols |->
                          [d.cols[i] EXCEPT !.name = _to_snake(d.cols[i].name)]]]

DEFAULT == <<"D","E","F","A","U","L","T">>

\* The keys of `mapping` that map to 1 and to 0.
mapping_one == {<<"y","e","s">>, <<"y">>, <<"t","r","u","e">>, <<"t">>, <<"1">>}
mapping_zero == {<<"n","o">>, <<"n">>, <<"f","a","l","s","e">>, <<"f">>, <<"0">>}

\* Series.map(mapping) on one text: a key's value, or a missing value.
mapping(s) ==
    IF s \in mapping_one THEN Num(100)
    ELSE IF s \in mapping_zero THEN Num(0)
    ELSE NaN

\* A mapping that lowercases but does not trim.
MapTargetNoStrip(col) ==
    [col EXCEPT !.dtype = "Int64",
                !.vals = [i \in DOMAIN col.vals |->
                            mapping(Lower(AsTypeStr(col.vals[i])))]]

\* .astype(str).str.strip().str.lower().map(mapping).astype("Int64")
MapTarget(col) ==
    [col EXCEPT !.dtype = "Int64",
                !.vals = [i \in DOMAIN col.vals |->
                            mapping(Lower(Strip(AsTypeStr(col.vals[i]))))]]

FillMissing(col, parsed) ==
    [col EXCEPT !.dtype = "float64",
                !.vals = [i \in DOMAIN col.vals |->
                            IF IsNa(col.vals[i]) THEN parsed.vals[i]
                            ELSE col.vals[i]]]

\* A fallback that parses the original text of the cells the lexicon left
\* missing, instead of re-coercing the mapped column.
CoerceOriginal(col, original) ==
    FillMissing(col, to_numeric(original, "coerce"))

\* df["DEFAULT"] = pd.to_numeric(df["DEFAULT"], errors="coerce"): col is
\* the column as it stands after the lexicon mapping, original the column
\* before it.
CoerceFallback(col, original) == to_numeric(col, "coerce")

\* The renamed frame with every column labelled target_col relabelled.
RenameToDefault(d, target_col) ==
    [d EXCEPT !.cols = [i \in DOMAIN d.cols |->
                          IF d.cols[i].name = target_col
                          THEN [d.cols[i] EXCEPT !.name = DEFAULT]
                          ELSE d.cols[i]]]

\* A match against the candidates as configured, not canonicalized.
FirstMatchRaw(d, target_candidates) ==
    SelectSeq(ColNames(d), LAMBDA c : c \in Range(target_candidates))

\* The candidates' first match in column order (existing[0]), or <<>>.
FirstMatch(d, target_candidates) ==
    LET norm_candidates == {_to_snake(target_candidates[i]) :
                              i \in DOMAIN target_candidates}
        existing == SelectSeq(ColNames(d), LAMBDA c : c \in norm_candidates)
    IN  existing

\* Values outside {0,1} pass the sanity check when it compares against
\* nothing.
NoSanityCheck(col) == FALSE

\* bad = ~df["DEFAULT"].isin([0, 1]); bad.any()
BadTarget(col) == \E i \in DOMAIN col.vals : col.vals[i].n \notin {0, 100}

\* if df["DEFAULT"].isna().any() or not is_integer_dtype(df["DEFAULT"]):
\*     df["DEFAULT"] = pd.to_numeric(df["DEFAULT"], errors="coerce")
CoerceIfNeeded(col, original) ==
    IF AnyNa(col) \/ ~is_integer_dtype(col.dtype)
    THEN CoerceFallback(col, original)
    ELSE col

\* The else branch up to the fallback: the lexicon for an object column,
\* then the numeric coercion.
MapAndCoerce(col) ==
    CoerceIfNeeded(IF col.dtype = "object" THEN MapTarget(col) ELSE col, col)

\* df["DEFAULT"] = df["DEFAULT"].astype(int), DEFAULT being column j.
CastAt(d, j) == SetCol(d, j, astype_int(d.cols[j]))

\* if df["DEFAULT"].isna().any(): df = df.dropna(subset=["DEFAULT"])
DropMissingAt(d, j) == IF AnyNa(d.cols[j]) THEN dropna(d, j) ELSE d

\* The coercion of the column j of the renamed frame to 0/1 integers.
CoerceAt(d, j) ==
    IF d.cols[j].dtype = "bool" THEN CastAt(d, j)
    ELSE CastAt(DropMissingAt(SetCol(d, j, MapAndCoerce(d.cols[j])), j), j)

\* The sanity check on the coerced frame.
SanityAt(d, j) ==
    IF BadTarget(d.cols[j]) THEN Raise("ValueError") ELSE Ok(d)

\* df["DEFAULT"] on the renamed frame: with the label on several columns
\* it is a DataFrame, which has no attribute dtype.
ResolveRenamed(d, hits) ==
    IF Cardinality(hits) > 1 THEN Raise("AttributeError")
    ELSE SanityAt(CoerceAt(d, CHOOSE j \in hits : TRUE), CHOOSE j \in hits : TRUE)

ResolveExisting(d, existing) ==
    IF existing = <<>> THEN Raise("KeyError")
    ELSE ResolveRenamed(RenameToDefault(d, existing[1]),
                        PositionsOf(RenameToDefault(d, existing[1]), DEFAULT))

resolve_target(d, target_candidates) ==
    ResolveExisting(d, FirstMatch(d, target_candidates))

\* A keep list computed against the drop list as configured.
KeepListRaw(d, drop_list) ==
    SelectSeq(ColNames(d), LAMBDA c : c \notin Range(drop_list))

\* keep = [c for c in df.columns if c not in drops]
KeepList(d, drop_list) ==
    LET drops == {_to_snake(drop_list[i]) : i \in DOMAIN drop_list}
    IN  SelectSeq(ColNames(d), LAMBDA c : c \notin drops)

drop_harmless_ids(d, drop_list) ==
    [index |-> d.index, cols |-> GetItemList(d, KeepList(d, drop_list))]

bank_balance == <<"b","a","n","k","_","b","a","l","a","n","c","e">>
annual_salary == <<"a","n","n","u","a","l","_","s","a","l","a","r","y">>
loan_amount == <<"l","o","a","n","_","a","m","o","u","n","t">>

CurrencyColumns == {bank_balance, annual_salary, loan_amount}

\* .astype(str).str.replace(",", "").str.replace("$", "")
StripCurrency(col) ==
    [col EXCEPT !.vals = [i \in DOMAIN col.vals |->
                            Str(Remove(Remove(AsTypeStr(col.vals[i]), ","), "$"))]]

CellwiseFrom(col, s) ==
    [col EXCEPT !.vals = [i \in DOMAIN col.vals |->
                            IF CellToNumeric(s.vals[i]) = Fail
                            THEN col.vals[i]
                            ELSE CellToNumeric(s.vals[i])]]

\* A coercion that decides cell by cell: a cell that parses becomes its
\* number, a cell that does not keeps its original value.
FixCellwise(col) == CellwiseFrom(col, StripCurrency(col))

\* df[col] = pd.to_numeric(<stripped text>, errors="ignore")
FixColumn(col) == to_numeric(StripCurrency(col), "ignore")

basic_type_fixes(d) ==
    IF ~Distinct(ColNames(d)) THEN Raise("AttributeError")
    ELSE Ok([d EXCEPT !.cols = [i \in DOMAIN d.cols |->
                IF d.cols[i].dtype = "object" /\ d.cols[i].name \in CurrencyColumns
                THEN FixColumn(d.cols[i])
                ELSE d.cols[i]]])

\* df["DEFAULT"].nunique(): the distinct values that are not missing.
nunique(col) ==
    Cardinality({col.vals[i] : i \in {k \in DOMAIN col.vals : ~IsNa(col.vals[k])}})

\* A final check that only looks for the DEFAULT column.
SanityPresenceOnly(d) ==
    IF PositionsOf(d, DEFAULT) = {} THEN "KeyError" ELSE ""

\* The final sanity check of preprocess(): "" when it passes.
FinalSanity(d) ==
    IF PositionsOf(d, DEFAULT) = {} THEN "KeyError"
    ELSE IF nunique(d.cols[CHOOSE j \in PositionsOf(d, DEFAULT) : TRUE]) # 2
    THEN "ValueError"
    ELSE ""

\* A CSV field: quoted when it holds the separator or a quote.
Quote(s) ==
    IF \E i \in DOMAIN s : s[i] \in {",", "\""}
    THEN <<"\"">> \o s \o <<"\"">>
    ELSE s

\* to_csv's text for one cell of a column of the given dtype.
FormatCell(c, dtype) ==
    CASE c.k = "nan" -> <<>>
      [] c.k = "str" -> Quote(c.s)
      [] c.k = "bool" -> AsTypeStr(c)
      [] OTHER -> IF is_integer_dtype(dtype) THEN FormatInt(c.n)
                  ELSE FormatFloat(c.n)

NoFile == [exists |-> FALSE, header |-> <<>>, rows |-> <<>>]

\* df.to_csv(out_path, index=False): the header, then one line per row;
\* the row labels are not written.
to_csv(d) ==
    [exists |-> TRUE,
     header |-> [j \in DOMAIN d.cols |-> Quote(d.cols[j].name)],
     rows |-> [i \in DOMAIN d.index |->
                 [j \in DOMAIN d.cols |->
                    FormatCell(d.cols[j].vals[i], d.cols[j].dtype)]]]

\* ------------------------------------------------------------------ inputs

\* Column names of at most MaxLen characters over a letter of each case, a
\* digit, the underscore, a blank and a punctuation mark.
NameChars == {"a", "B", "1", "_", " ", "?"}
Names == UNION {[1..n -> NameChars] : n \in 0..MaxLen}

H_CustID == <<"C","u","s","t"," ","I","D">>
H_cust_id == <<"c","u","s","t","_","i","d">>
H_Defaulted == <<"D","e","f","a","u","l","t","e","d","?">>
H_defaulted == <<"d","e","f","a","u","l","t","e","d">>
H_LoanAmount == <<"L","o","a","n"," ","A","m","o","u","n","t">>

Headers == {H_CustID, H_cust_id, H_Defaulted, H_defaulted, DEFAULT,
            H_LoanAmount, loan_amount}

T_Yes == <<"Y","e","s">>
T_No == <<"N","o">>
T_yes == <<"y","e","s">>
T_N == <<"N">>
T_n_padded == <<" ","n"," ">>
T_2 == <<"2">>
T_1_0 == <<"1",".","0">>
T_maybe == <<"m","a","y","b","e">>
T_1200_50 == <<"$","1",",","2","0","0",".","5","0">>
T_950 == <<"$","9","5","0">>
T_NA == <<"N","/","A">>
T_TBD == <<"T","B","D">>
T_dollar == <<"$">>

\* The column a header carries in the layout frames (two rows).
HeaderColumn(h) ==
    CASE h = H_CustID ->
           [name |-> h, dtype |-> "int64", vals |-> <<Num(100), Num(200)>>]
      [] h = H_cust_id ->
           [name |-> h, dtype |-> "int64", vals |-> <<Num(300), Num(400)>>]
      [] h = H_Defaulted ->
           [name |-> h, dtype |-> "bool", vals |-> <<Bool(TRUE), Bool(FALSE)>>]
      [] h = H_defaulted ->
           [name |-> h, dtype |-> "object", vals |-> <<Str(T_Yes), Str(T_No)>>]
      [] h = DEFAULT ->
           [name |-> h, dtype |-> "int64", vals |-> <<Num(100), Num(0)>>]
      [] h = H_LoanAmount ->
           [name |-> h, dtype |-> "object", vals |-> <<Str(T_1200_50), Str(T_950)>>]
      [] OTHER ->
           [name |-> h, dtype |-> "object", vals |-> <<Str(T_950), Str(T_TBD)>>]

Layouts ==
    {l \in UNION {[1..n -> Headers] : n \in 1..MaxCols} : Distinct(l)}

LayoutDatasets ==
    {[index |-> <<0, 1>>, cols |-> [i \in DOMAIN l |-> HeaderColumn(l[i])]] :
       l \in Layouts}

RangeIndex(n) == [i \in 1..n |-> i - 1]

IdColumn(n) ==
    [name |-> H_cust_id, dtype |-> "int64", vals |-> [i \in 1..n |-> Num(100 * i)]]

\* A boolean column of n rows, True and False in turn.
FlagColumn(n) ==
    [name |-> H_defaulted, dtype |-> "bool",
     vals |-> [i \in 1..n |-> Bool(i % 2 = 1)]]

TargetCells(dtype) ==
    CASE dtype = "bool" -> {Bool(TRUE), Bool(FALSE)}
      [] dtype = "int64" -> {Num(0), Num(100), Num(200)}
      [] dtype = "float64" -> {NaN, Num(50), Num(190), Num(200)}
      [] OTHER -> {Str(T_Yes), Str(T_n_padded), Str(T_2), Str(T_1_0),
                   Str(T_maybe), Str(<<>>), NaN}

TargetColumns ==
    UNION {{[name |-> H_defaulted, dtype |-> dt, vals |-> v] :
              v \in UNION {[1..n -> TargetCells(dt)] : n \in 1..MaxRows}} :
             dt \in {"bool", "int64", "float64", "object"}}

\* An id column, then a target column of every dtype and content.
TargetDatasets ==
    {[index |-> RangeIndex(Len(c.vals)),
      cols |-> <<IdColumn(Len(c.vals)), c>>] : c \in TargetColumns}

CurrencyCells ==
    {Str(T_1200_50), Str(T_950), Str(T_TBD), Str(T_NA), Str(T_dollar), NaN}

\* A currency column of every content, then a boolean target.
CurrencyDatasets ==
    {[index |-> RangeIndex(Len(v)),
      cols |-> <<[name |-> loan_amount, dtype |-> "object", vals |-> v],
                 FlagColumn(Len(v))>>] :
       v \in UNION {[1..n -> CurrencyCells] : n \in 1..MaxRows}}

\* The worked examples: a target of Yes, No, yes, N and an empty text; a
\* currency column of $1,200.50, $950 and N/A.
ExampleTarget ==
    [index |-> RangeIndex(5),
     cols |-> <<[name |-> H_defaulted, dtype |-> "object",
                 vals |-> <<Str(T_Yes), Str(T_No), Str(T_yes), Str(T_N), Str(<<>>)>>]>>]

ExampleCurrency ==
    [index |-> RangeIndex(3),
     cols |-> <<[name |-> loan_amount, dtype |-> "object",
                 vals |-> <<Str(T_1200_50), Str(T_950), Str(T_NA)>>]>>]

Datasets ==
    LayoutDatasets \cup TargetDatasets \cup CurrencyDatasets
    \cup {ExampleTarget, ExampleCurrency}

\* Texts pd.read_csv reads as a missing value, and as a boolean.
NaTexts == {<<>>, T_NA, <<"N","A">>, <<"n","a","n">>, <<"N","a","N">>,
            <<"n","/","a">>, <<"N","U","L","L">>, <<"n","u","l","l">>,
            <<"N","o","n","e">>}
BoolTexts == {<<"T","r","u","e">>, <<"T","R","U","E">>, <<"t","r","u","e">>,
              <<"F","a","l","s","e">>, <<"F","A","L","S","E">>,
              <<"f","a","l","s","e">>}

\* What pd.read_csv can return: distinct headers; an object column holds
\* text that is no missing-value marker, and is neither all numeric nor
\* all boolean (such a column is read with that dtype).
ReadCsvProduces(d) ==
    /\ Distinct(ColNames(d))
    /\ \A j \in DOMAIN d.cols :
         LET col == d.cols[j]
         IN  col.dtype = "object" =>
               /\ \A i \in DOMAIN col.vals :
                    col.vals[i].k = "str" => col.vals[i].s \notin NaTexts
               /\ \E i \in DOMAIN col.vals :
                    col.vals[i].k = "str" /\ ParseNumber(col.vals[i].s) = Fail
               /\ \E i \in DOMAIN col.vals :
                    col.vals[i].k # "str" \/ col.vals[i].s \notin BoolTexts

\* The raw directory: the CSV files in it, by sorted name.
RawDirs == {<<>>} \cup {<<d>> : d \in {x \in Datasets : ReadCsvProduces(x)}}

C_target == <<"t","a","r","g","e","t">>
C_default == <<"d","e","f","a","u","l","t">>
C_ID == <<"I","D">>
C_Cust_ID == <<"C","u","s","t","_","I","D">>

CandidateLists == {<<H_Defaulted>>, <<C_default, H_Defaulted>>, <<C_target>>}
DropLists == {<<>>, <<C_ID, C_Cust_ID>>, <<H_Defaulted>>}

Configs ==
    {[target_candidates |-> tc, drop_if_present |-> dl] :
       tc \in CandidateLists, dl \in DropLists}

NoConfig == [target_candidates |-> <<>>, drop_if_present |-> <<>>]

\* A processed file left by an earlier run.
OldFile == [exists |-> TRUE, header |-> <<<<"o","l","d">>>>, rows |-> <<>>]

\* ----------------------------------------------------------- state machine

Init ==
    /\ pc = "start"
    /\ op = "none"
    /\ cfg = NoConfig
    /\ raw = NoFrame
    /\ arg = NoFrame
    /\ df = NoFrame
    /\ err = ""
    /\ name_arg = <<>>
    /\ name_ret = <<>>
    /\ steps = <<>>
    /\ out_file \in {NoFile, OldFile}
    /\ old_file = out_file

\* A direct call f(d, ...) returning r: its argument, result and exception.
Returned(f, d, c, r) ==
    /\ op' = f
    /\ cfg' = c
    /\ arg' = d
    /\ df' = r.df
    /\ err' = r.err
    /\ pc' = "returned"
    /\ UNCHANGED <<raw, name_arg, name_ret, steps, out_file, old_file>>

Call_to_snake ==
    /\ pc = "start"
    /\ \E s \in Names :
         /\ name_arg' = s
         /\ name_ret' = _to_snake(s)
    /\ op' = "_to_snake"
    /\ pc' = "returned"
    /\ UNCHANGED <<cfg, raw, arg, df, err, steps, out_file, old_file>>

Call_normalize_columns ==
    /\ pc = "start"
    /\ \E d \in Datasets :
         Returned("normalize_columns", d, NoConfig, Ok(normalize_columns(d)))

Call_resolve_target ==
    /\ pc = "start"
    /\ \E d \in Datasets, tc \in CandidateLists :
         Returned("resolve_target", d,
                  [target_candidates |-> tc, drop_if_present |-> <<>>],
                  resolve_target(d, tc))

Call_drop_harmless_ids ==
    /\ pc = "start"
    /\ \E d \in Datasets, dl \in DropLists :
         Returned("drop_harmless_ids", d,
                  [target_candidates |-> <<>>, drop_if_present |-> dl],
                  Ok(drop_harmless_ids(d, dl)))

Call_basic_type_fixes ==
    /\ pc = "start"
    /\ \E d \in Datasets :
         Returned("basic_type_fixes", d, NoConfig, basic_type_fixes(d))

\* A step of preprocess() whose call returned r: the run goes on to `next`
\* with the returned frame, or aborts with the exception raised.
Step(name, r, next) ==
    /\ arg' = df
    /\ IF r.err = ""
       THEN /\ df' = r.df
            /\ steps' = Append(steps, name)
            /\ pc' = next
            /\ err' = ""
       ELSE /\ df' = df
            /\ steps' = steps
            /\ pc' = "aborted"
            /\ err' = r.err
    /\ UNCHANGED <<op, cfg, raw, name_arg, name_ret, out_file, old_file>>

\* cfg = load_config()
load_config ==
    /\ pc = "start"
    /\ \E c \in Configs : cfg' = c
    /\ op' = "preprocess"
    /\ steps' = <<"load_config">>
    /\ pc' = "load_raw"
    /\ UNCHANGED <<raw, arg, df, err, name_arg, name_ret, out_file, old_file>>

\* find_first_csv: the first CSV of the raw directory, by sorted name.
find_first_csv(raw_dir) ==
    IF raw_dir = <<>> THEN Raise("FileNotFoundError") ELSE Ok(raw_dir[1])

\* df = load_raw_dataframe(cfg)
load_raw_dataframe ==
    /\ pc = "load_raw"
    /\ \E raw_dir \in RawDirs :
         LET r == find_first_csv(raw_dir)
         IN  /\ raw' = r.df
             /\ df' = r.df
             /\ err' = r.err
             /\ steps' = IF r.err = "" THEN Append(steps, "load_raw") ELSE steps
             /\ pc' = IF r.err = "" THEN "normalize" ELSE "aborted"
    /\ UNCHANGED <<op, cfg, arg, name_arg, name_ret, out_file, old_file>>

step_normalize ==
    /\ pc = "normalize"
    /\ Step("normalize", Ok(normalize_columns(df)), "resolve")

step_resolve ==
    /\ pc = "resolve"
    /\ Step("resolve", resolve_target(df, cfg.target_candidates), "drop")

step_drop ==
    /\ pc = "drop"
    /\ Step("drop", Ok(drop_harmless_ids(df, cfg.drop_if_present)), "fix")

step_fix ==
    /\ pc = "fix"
    /\ Step("fix", basic_type_fixes(df), "validate")

step_validate ==
    /\ pc = "validate"
    /\ Step("validate", [err |-> FinalSanity(df), df |-> df], "save")

\* df.to_csv(out_path, index=False)
step_save ==
    /\ pc = "save"
    /\ out_file' = to_csv(df)
    /\ steps' = Append(steps, "save")
    /\ pc' = "done"
    /\ UNCHANGED <<op, cfg, raw, arg, df, err, name_arg, name_ret, old_file>>

Next ==
    \/ Call_to_snake
    \/ Call_normalize_columns
    \/ Call_resolve_target
    \/ Call_drop_harmless_ids
    \/ Call_basic_type_fixes
    \/ load_config
    \/ load_raw_dataframe
    \/ step_normalize
    \/ step_resolve
    \/ step_drop
    \/ step_fix
    \/ step_validate
    \/ step_save

Spec == Init /\ [][Next]_vars

\* ----------------------------------------------------- what a state shows

LastStep == IF steps = <<>> THEN "" ELSE steps[Len(steps)]

\* resolve_target has run: arg is its argument, err its exception, df the
\* frame it returned (when none was raised).
ResolveRan ==
    \/ pc = "returned" /\ op = "resolve_target"
    \/ op = "preprocess" /\ pc = "drop"
    \/ op = "preprocess" /\ pc = "aborted" /\ LastStep = "normalize"

\* drop_harmless_ids has run on arg and returned df.
DropRan ==
    \/ pc = "returned" /\ op = "drop_harmless_ids"
    \/ op = "preprocess" /\ pc = "fix"

\* basic_type_fixes has run on arg.
FixRan ==
    \/ pc = "returned" /\ op = "basic_type_fixes"
    \/ op = "preprocess" /\ pc = "validate"
    \/ op = "preprocess" /\ pc = "aborted" /\ LastStep = "drop"

\* The canonical names of each configured list of names.
CanonicalLists ==
    {<<l, {_to_snake(l[k]) : k \in DOMAIN l}>> :
       l \in CandidateLists \cup DropLists}

Canonical(l) == (CHOOSE p \in CanonicalLists : p[1] = l)[2]

IsCandidate(nm, tc) == nm \in Canonical(tc)

Matches(d, tc) == \E i \in DOMAIN d.cols : IsCandidate(d.cols[i].name, tc)

\* The first column, in column order, whose name is a canonical candidate.
TargetIdx(d, tc) ==
    CHOOSE i \in DOMAIN d.cols :
      /\ IsCandidate(d.cols[i].name, tc)
      /\ \A j \in 1..(i - 1) : ~IsCandidate(d.cols[j].name, tc)

TargetOf(d, tc) == d.cols[TargetIdx(d, tc)]

\* The rename leaves several columns called DEFAULT.
Ambiguous(d, tc) ==
    Cardinality({i \in DOMAIN d.cols :
                   d.cols[i].name \in {TargetOf(d, tc).name, DEFAULT}}) > 1

\* A numeric target with a value whose integer part is neither 0 nor 1.
OutOfDomain(col) ==
    /\ col.dtype \in {"int64", "float64"}
    /\ \E i \in DOMAIN col.vals :
         ~IsNa(col.vals[i]) /\ Trunc(col.vals[i].n) \notin {0, 100}

\* Exactly one column is called DEFAULT and it holds 0 and 1 only.
BinaryDefault(d) ==
    /\ Cardinality(PositionsOf(d, DEFAULT)) = 1
    /\ \A j \in PositionsOf(d, DEFAULT) :
         \A i \in DOMAIN d.cols[j].vals : d.cols[j].vals[i] \in {Num(0), Num(100)}

\* The lexicon as the specification lists it.
LexOnes == {<<"y","e","s">>, <<"y">>, <<"t","r","u","e">>, <<"t">>, <<"1">>}
LexZeros == {<<"n","o">>, <<"n">>, <<"f","a","l","s","e">>, <<"f">>, <<"0">>}

\* The trimmed, lowercased text of a cell of a textual column.
Label(c) == Lower(Strip(AsTypeStr(c)))

InLexicon(c) == Label(c) \in LexOnes \cup LexZeros

LexValue(c) == IF Label(c) \in LexOnes THEN Num(100) ELSE Num(0)

\* resolve_target ran on a frame whose single target column is textual.
TextualTargetResolved ==
    /\ ResolveRan
    /\ Matches(arg, cfg.target_candidates)
    /\ ~Ambiguous(arg, cfg.target_candidates)
    /\ TargetOf(arg, cfg.target_candidates).dtype = "object"

\* ------------------------------------------------------------------ claims

\* C1 as stated: for every dataset with a column matching a canonicalized
\* candidate, resolve_target returns a dataset with exactly one column named
\* DEFAULT whose values are all 0 or 1.
C1_Original ==
    (ResolveRan /\ Matches(arg, cfg.target_candidates))
      => (err = "" /\ BinaryDefault(df))

\* C1 (amended): for every dataset with a column matching a canonicalized
\* candidate, resolve_target raises AttributeError when the rename leaves
\* more than one column named DEFAULT, raises ValueError when the numeric
\* target holds a value whose integer part is not 0 or 1, and otherwise
\* returns a dataset with exactly one column named DEFAULT whose values are
\* all 0 or 1.
C1_ReturnsBinaryOrRaises ==
    (ResolveRan /\ Matches(arg, cfg.target_candidates))
      => IF Ambiguous(arg, cfg.target_candidates)
         THEN err = "AttributeError"
         ELSE IF OutOfDomain(TargetOf(arg, cfg.target_candidates))
         THEN err = "ValueError"
         ELSE err = "" /\ BinaryDefault(df)

\* C1 witness: a frame with two matching columns resolved to one DEFAULT
\* column of 0/1, the other match keeping its name.
C1_Witness ==
    /\ ResolveRan /\ err = ""
    /\ Cardinality({i \in DOMAIN arg.cols :
                      IsCandidate(arg.cols[i].name, cfg.target_candidates)}) = 2
    /\ BinaryDefault(df)
    /\ \E i \in DOMAIN df.cols : IsCandidate(df.cols[i].name, cfg.target_candidates)

\* C3: for a textual target column, resolve_target keeps exactly the rows
\* whose trimmed, lowercased value is a lexicon key, each with the lexicon's
\* value, in the original order, and drops the rows whose target is empty or
\* missing.
C3_TextualTargetMapped ==
    TextualTargetResolved =>
      LET t == TargetIdx(arg, cfg.target_candidates)
          kept == {i \in DOMAIN arg.index : InLexicon(arg.cols[t].vals[i])}
      IN  /\ err = ""
          /\ df.index = Pick(arg.index, kept, 1)
          /\ Len(df.cols) = Len(arg.cols)
          /\ df.cols[t].name = DEFAULT
          /\ df.cols[t].vals =
               Pick([i \in DOMAIN arg.index |-> LexValue(arg.cols[t].vals[i])],
                    kept, 1)
          /\ \A j \in DOMAIN arg.cols \ {t} :
               df.cols[j].vals = Pick(arg.cols[j].vals, kept, 1)
          /\ \A i \in DOMAIN arg.index :
               (IsNa(arg.cols[t].vals[i]) \/ arg.cols[t].vals[i] = Str(<<>>))
                 => i \notin kept

\* C3 witness: the target Yes, No, yes, N, "" resolved to 1, 0, 1, 0.
C3_Witness ==
    /\ ResolveRan /\ arg = ExampleTarget
    /\ df.index = <<0, 1, 2, 3>>
    /\ df.cols[1].vals = <<Num(100), Num(0), Num(100), Num(0)>>

\* C4: when no column name equals a canonicalized candidate, resolve_target
\* raises KeyError and returns no dataset; in the pipeline the run aborts
\* with the normalized frame as it was and nothing written.
C4_MissingTarget ==
    (ResolveRan /\ ~Matches(arg, cfg.target_candidates))
      => /\ err = "KeyError"
         /\ pc = "returned" => df = NoFrame
         /\ op = "preprocess" =>
              /\ pc = "aborted"
              /\ df = arg
              /\ df = normalize_columns(raw)
              /\ out_file = old_file

\* C4 witness: a frame with a column "Defaulted?" (not in canonical form)
\* and the candidate "Defaulted?": no column equals "defaulted", KeyError.
C4_Witness ==
    /\ pc = "returned" /\ op = "resolve_target" /\ err = "KeyError"
    /\ cfg.target_candidates = <<H_Defaulted>>
    /\ \E i \in DOMAIN arg.cols : arg.cols[i].name = H_Defaulted

\* C5 as stated: drop_harmless_ids removes exactly the columns whose name
\* is the canonical form of a drop-list entry; the other columns survive in
\* their original order, and the rows are untouched.
C5_DropsExactly ==
    DropRan =>
      /\ err = ""
      /\ df.index = arg.index
      /\ df.cols = SelectSeq(arg.cols,
                     LAMBDA c : ~IsCandidate(c.name, cfg.drop_if_present))

\* C6: _to_snake is idempotent and its result is lowercase alphanumeric
\* runs separated by single underscores, with no leading or trailing
\* underscore; so is normalize_columns.
C6_Idempotent ==
    /\ (pc = "returned" /\ op = "_to_snake") =>
         /\ _to_snake(name_ret) = name_ret
         /\ \A i \in DOMAIN name_ret :
              /\ name_ret[i] \in Range(LowerChars) \cup Range(DigitChars) \cup {"_"}
              /\ name_ret[i] = "_" => (i > 1 /\ i < Len(name_ret)
                                       /\ name_ret[i + 1] # "_")
    /\ (pc = "returned" /\ op = "normalize_columns") =>
         normalize_columns(df) = df

\* C6 witness: "B?_a" canonicalized to "b_a".
C6_Witness ==
    /\ pc = "returned" /\ op = "_to_snake"
    /\ name_arg = <<"B", "?", "_", "a">>
    /\ name_ret = <<"b", "_", "a">>

\* The text of a cell with its commas and "$" removed.
Stripped(c) == Remove(Remove(AsTypeStr(c), ","), "$")

IsCurrencyText(col) == col.dtype = "object" /\ col.name \in CurrencyColumns

\* C2 as stated: in a currency column of text every cell that parses as a
\* number once commas and "$" are removed becomes that number, every other
\* cell keeps its original text exactly, and no error is raised.
C2_Original ==
    FixRan =>
      /\ err = ""
      /\ \A j \in DOMAIN arg.cols : IsCurrencyText(arg.cols[j]) =>
           \A i \in DOMAIN arg.cols[j].vals :
             arg.cols[j].vals[i].k = "str" =>
               IF ParseNumber(Stripped(arg.cols[j].vals[i])) # Fail
               THEN df.cols[j].vals[i] = ParseNumber(Stripped(arg.cols[j].vals[i]))
               ELSE df.cols[j].vals[i] = arg.cols[j].vals[i]

\* C2 (amended): basic_type_fixes coerces a currency column of text as a
\* whole.  Commas and "$" are removed from every cell; when every cell then
\* parses (an empty text or "nan" as a missing value) every cell becomes
\* its number, otherwise every cell of the column is left as its stripped
\* text.  Every other column is unchanged.  No error is raised unless two
\* columns share a name, and then AttributeError is.
C2_WholeColumn ==
    FixRan =>
      IF ~Distinct(ColNames(arg)) THEN err = "AttributeError"
      ELSE
      /\ err = ""
      /\ df.index = arg.index
      /\ Len(df.cols) = Len(arg.cols)
      /\ \A j \in DOMAIN arg.cols :
           IF ~IsCurrencyText(arg.cols[j]) THEN df.cols[j] = arg.cols[j]
           ELSE IF \A i \in DOMAIN arg.cols[j].vals :
                     ParseNumber(Stripped(arg.cols[j].vals[i])) # Fail
           THEN \A i \in DOMAIN arg.cols[j].vals :
                  df.cols[j].vals[i] = ParseNumber(Stripped(arg.cols[j].vals[i]))
           ELSE \A i \in DOMAIN arg.cols[j].vals :
                  df.cols[j].vals[i] = Str(Stripped(arg.cols[j].vals[i]))

\* C2 witness: the column $1,200.50, $950, N/A comes back as the texts
\* 1200.50, 950, N/A.
C2_Witness ==
    /\ FixRan /\ arg = ExampleCurrency /\ err = ""
    /\ df.cols[1].vals = <<Str(<<"1","2","0","0",".","5","0">>),
                           Str(<<"9","5","0">>), Str(T_NA)>>

FullOrder == <<"load_config", "load_raw", "normalize", "resolve", "drop",
               "fix", "validate", "save">>

IsPrefix(s, u) == Len(s) <= Len(u) /\ s = SubSeq(u, 1, Len(s))

\* The texts of the DEFAULT column of a written file.
FileDefault(f) ==
    LET j == CHOOSE j \in DOMAIN f.header : f.header[j] = DEFAULT
    IN  [i \in DOMAIN f.rows |-> f.rows[i][j]]

\* C7: in every run of preprocess the steps complete in the order load
\* config, load raw, normalize, resolve, drop, fix, validate, save; the
\* output file is written only in a run that completed them all without
\* error, and then holds a DEFAULT column with exactly two distinct values;
\* a run in which a step raises aborts there and leaves the output file as
\* it was.
C7_WriteOnlyAfterAllSteps ==
    op = "preprocess" =>
      /\ IsPrefix(steps, FullOrder)
      /\ err # "" <=> pc = "aborted"
      /\ pc = "aborted" => (out_file = old_file /\ LastStep # "save")
      /\ out_file # old_file =>
           /\ pc = "done" /\ steps = FullOrder
           /\ out_file = to_csv(df)
           /\ \E j \in DOMAIN out_file.header : out_file.header[j] = DEFAULT
           /\ Cardinality(Range(FileDefault(out_file))) = 2
      /\ pc = "done" => out_file # old_file

\* C7 witness: a completed run that replaced an earlier output file.
C7_Witness ==
    /\ op = "preprocess" /\ pc = "done"
    /\ old_file = OldFile /\ out_file # OldFile

\* The canonical form of each header of the raw datasets.
CanonicalHeaders == {<<h, _to_snake(h)>> : h \in Headers}

\* The canonical names of the raw columns.
RawNames ==
    [j \in DOMAIN raw.cols |->
       (CHOOSE p \in CanonicalHeaders : p[1] = raw.cols[j].name)[2]]

\* The first raw column, in column order, whose canonical name is a
\* canonical candidate.
RawTargetIdx ==
    CHOOSE j \in DOMAIN raw.cols :
      /\ IsCandidate(RawNames[j], cfg.target_candidates)
      /\ \A k \in 1..(j - 1) : ~IsCandidate(RawNames[k], cfg.target_candidates)

\* The run is over and its raw target column is boolean with both values.
BooleanTargetRun ==
    /\ op = "preprocess" /\ pc \in {"done", "aborted"}
    /\ raw # NoFrame
    /\ \E j \in DOMAIN raw.cols : IsCandidate(RawNames[j], cfg.target_candidates)
    /\ raw.cols[RawTargetIdx].dtype = "bool"
    /\ Range(raw.cols[RawTargetIdx].vals) = {Bool(TRUE), Bool(FALSE)}

\* The header the claim expects: the canonical names in order, the target
\* called DEFAULT, without the names of the canonical drop list.
ExpectedHeader ==
    SelectSeq([j \in DOMAIN raw.cols |->
                 IF RawNames[j] = RawNames[RawTargetIdx] THEN DEFAULT
                 ELSE RawNames[j]],
              LAMBDA c : c = DEFAULT \/ ~IsCandidate(c, cfg.drop_if_present))

C9_Original == ~(ResolveRan /\ err = "ValueError")

\* C9 (amended): the "value out of domain" error of resolve_target is
\* raised exactly when the single target column is numeric and holds a
\* value that is not missing and whose integer part is neither 0 nor 1; for
\* a boolean or textual target it is unreachable.
C9_ValueErrorExactly ==
    ResolveRan =>
      (err = "ValueError" <=>
         /\ Matches(arg, cfg.target_candidates)
         /\ ~Ambiguous(arg, cfg.target_candidates)
         /\ OutOfDomain(TargetOf(arg, cfg.target_candidates)))

\* C9 witness: a float target holding 1.9 and 0.5 passes the check, cast to
\* 1 and 0.
C9_Witness ==
    /\ ResolveRan /\ err = ""
    /\ Matches(arg, cfg.target_candidates)
    /\ TargetOf(arg, cfg.target_candidates).vals = <<Num(190), Num(50)>>
    /\ df.cols[TargetIdx(arg, cfg.target_candidates)].vals = <<Num(100), Num(0)>>

\* A text that is not a lexicon key and parses as a number.
NumericNotLexicon(c) ==
    c.k = "str" /\ ~InLexicon(c) /\ ParseNumber(c.s).k = "num"

\* C10 as stated: for a textual target, a value that is numeric but not in
\* the lexicon receives its parsed number and is not treated as missing:
\* its row is kept with that number (unless the out-of-domain check raises).
C10_Original ==
    TextualTargetResolved =>
      LET t == TargetIdx(arg, cfg.target_candidates)
      IN  \A i \in DOMAIN arg.index : NumericNotLexicon(arg.cols[t].vals[i]) =>
            \/ err = "ValueError"
            \/ /\ err = ""
               /\ \E r \in DOMAIN df.index :
                    /\ df.index[r] = arg.index[i]
                    /\ df.cols[t].vals[r] = Num(Trunc(ParseNumber(arg.cols[t].vals[i].s).n))

\* C10 (amended): for a textual target the numeric fallback runs on the
\* column as mapped by the lexicon and changes nothing: a row is dropped
\* exactly when its trimmed, lowercased value is not a lexicon key, whether
\* or not that value is numeric ("2", "1.0"), and no error is raised.
C10_FallbackOnMappedColumn ==
    TextualTargetResolved =>
      LET t == TargetIdx(arg, cfg.target_candidates)
      IN  /\ err = ""
          /\ \A i \in DOMAIN arg.index :
               (arg.index[i] \in Range(df.index)) <=> InLexicon(arg.cols[t].vals[i])

\* C10 witness: a textual target holding "1.0" and "Yes": the row of "1.0"
\* is dropped, the row of "Yes" kept.
C10_Witness ==
    /\ TextualTargetResolved /\ err = ""
    /\ TargetOf(arg, cfg.target_candidates).vals = <<Str(T_1_0), Str(T_Yes)>>
    /\ df.index = <<1>>

====
